---- MODULE Spec2Model ----
(***************************************************************************)
(* Model of scripts/cooccur_phylo_hgt/prep_combined_tables_ranger.py.      *)
(*                                                                         *)
(* The script loads four tables (co-occurrence, tip distances, taxonomy,   *)
(* pairwise HGT tallies), checks the format of every HGT key, prints a     *)
(* header and then one line per HGT key, leaving through sys.exit at the   *)
(* first key that fails a check.                                           *)
(*                                                                         *)
(* Strings that the script splits, joins or sorts (taxon identifiers and   *)
(* pair keys) are sequences of one-character strings, so that split, join  *)
(* and sorted are computed and not assumed.  A printed field is a record   *)
(* [kind, vals]: the literal NA, one scalar, or the pandas Series that     *)
(* .loc returns when the index label is duplicated.                        *)
(*                                                                         *)
(* Input domain: identifiers and rank values are non-empty strings, the    *)
(* tip-distance table is a square matrix over its own index, the indexes   *)
(* of the tip-distance and taxonomic tables have no duplicates, and every  *)
(* requested measure is a column of the co-occurrence table.  The HGT and  *)
(* co-occurrence tables may hold any rows, duplicates included.            *)
(***************************************************************************)
EXTENDS Integers, Sequences, FiniteSets, TLC

VARIABLES
    hgt_tab,            \* rows [key, species, hgt_count] in file order
    cooccur_tab,        \* rows [taxon_i, taxon_j, vals] in file order
    tip_dist,           \* [index, cell]: square matrix over index
    taxa_tab,           \* function: taxon id -> rank vector (8 values)
    measures,           \* args.cooccur_measure.split(',')
    taxa_combinations,  \* list built by the format loop
    pc,                 \* "split", "rows", "done", "error"
    i,                  \* position of the running loop in its list
    out,                \* lines printed on standard output so far
    err                 \* which sys.exit / exception ended the run

vars == <<hgt_tab, cooccur_tab, tip_dist, taxa_tab, measures,
          taxa_combinations, pc, i, out, err>>

tables == <<hgt_tab, cooccur_tab, tip_dist, taxa_tab, measures>>

----------------------------------------------------------------------------
(* Strings *)

Comma == ","

\* Code points of the characters used, as Python compares them.
CharCode == [c \in {",", "a", "b"} |->
                IF c = "," THEN 44 ELSE IF c = "a" THEN 97 ELSE 98]

\* s < t on Python strings: lexicographic, a proper prefix is smaller.
RECURSIVE StrLess(_, _)
StrLess(s, t) ==
    IF t = <<>> THEN FALSE
    ELSE IF s = <<>> THEN TRUE
    ELSE IF CharCode[Head(s)] # CharCode[Head(t)]
         THEN CharCode[Head(s)] < CharCode[Head(t)]
         ELSE StrLess(Tail(s), Tail(t))

\* sorted([x, y])
SortedPair(x, y) == IF StrLess(y, x) THEN <<y, x>> ELSE <<x, y>>

\* Position of the first comma of s, or 0.
RECURSIVE FindComma(_, _)
FindComma(s, k) ==
    IF k > Len(s) THEN 0
    ELSE IF s[k] = Comma THEN k
    ELSE FindComma(s, k + 1)

\* s.split(',', 1): splits at the first comma only.
SplitOnce(s) ==
    LET k == FindComma(s, 1)
    IN  IF k = 0 THEN <<s>>
        ELSE <<SubSeq(s, 1, k - 1), SubSeq(s, k + 1, Len(s))>>

\* s.split(',')
RECURSIVE Split(_)
Split(s) ==
    LET k == FindComma(s, 1)
    IN  IF k = 0 THEN <<s>>
        ELSE <<SubSeq(s, 1, k - 1)>> \o Split(SubSeq(s, k + 1, Len(s)))

\* ",".join(parts)
RECURSIVE Join(_)
Join(parts) ==
    IF Len(parts) = 0 THEN <<>>
    ELSE IF Len(parts) = 1 THEN parts[1]
    ELSE parts[1] \o <<Comma>> \o Join(Tail(parts))

----------------------------------------------------------------------------
(* pandas lookups *)

NA == [kind |-> "NA", vals |-> <<>>]
Scalar(v) == [kind |-> "scalar", vals |-> <<v>>]
Series(vs) == [kind |-> "series", vals |-> vs]

\* label in frame.index
InIndex(index, label) == \E k \in 1..Len(index) : index[k] = label

\* The values of a column at the rows whose index label is `label`, in order.
RECURSIVE ColumnAt(_, _, _, _)
ColumnAt(index, column, label, k) ==
    IF k > Len(index) THEN <<>>
    ELSE (IF index[k] = label THEN <<column[k]>> ELSE <<>>)
         \o ColumnAt(index, column, label, k + 1)

\* frame.loc[label, col]: a scalar when the label is unique in the index, a
\* Series of every matching row when it is duplicated.
Loc(index, column, label) ==
    LET vs == ColumnAt(index, column, label, 1)
    IN  IF Len(vs) = 1 THEN Scalar(vs[1]) ELSE Series(vs)

\* hgt_tab.index
HgtIndex(hgt) == [k \in 1..Len(hgt) |-> hgt[k].key]

\* cooccur_tab.index after line 55: sorted pair, comma-joined, per row.
CooccurIndex(cooccur) ==
    [r \in 1..Len(cooccur) |->
        Join(SortedPair(cooccur[r].taxon_i, cooccur[r].taxon_j))]

----------------------------------------------------------------------------
(* One iteration of each loop *)

tax_levels == <<"Domain", "Phylum", "Class", "Order",
                "Family", "Genus", "Species", "Strain">>

\* Lines 87-94: the first level at which the two rank vectors differ.
RECURSIVE DiffFrom(_, _, _)
DiffFrom(taxon_i_levels, taxon_j_levels, k) ==
    IF k > Len(taxon_i_levels) THEN "NO_DIFF_FOUND"
    ELSE IF taxon_i_levels[k] # taxon_j_levels[k] THEN tax_levels[k]
    ELSE DiffFrom(taxon_i_levels, taxon_j_levels, k + 1)

\* The scan without its break: the last level at which the vectors differ.
RECURSIVE DiffLastFrom(_, _, _, _)
DiffLastFrom(taxon_i_levels, taxon_j_levels, k, found) ==
    IF k > Len(taxon_i_levels) THEN found
    ELSE DiffLastFrom(taxon_i_levels, taxon_j_levels, k + 1,
             IF taxon_i_levels[k] # taxon_j_levels[k] THEN tax_levels[k] ELSE found)

DiffLevelNoBreak(taxon_i_levels, taxon_j_levels) ==
    DiffLastFrom(taxon_i_levels, taxon_j_levels, 1, "NO_DIFF_FOUND")

diff_level(taxon_i_levels, taxon_j_levels) ==
    DiffFrom(taxon_i_levels, taxon_j_levels, 1)

\* The format test accepting any key of two parts or more.
FormatOkAtLeastTwo(taxa_combo) == Len(taxa_combo) >= 2

\* Line 63: the format test on one split key.
FormatOk(taxa_combo) == Len(taxa_combo) = 2

\* The pair key joined with ", " instead of ",".
PairKeySpaced(taxon_i, taxon_j) == taxon_i \o <<Comma, " ">> \o taxon_j

\* Lines 78-79.
PairKey(taxon_i, taxon_j) == taxon_i \o <<Comma>> \o taxon_j

\* The reverse-key test of the HGT table left out.
ReverseInHgtSkipped(hgt, reverse_taxa_combo) == FALSE

\* Line 100.
ReverseInHgt(hgt, reverse_taxa_combo) ==
    InIndex(HgtIndex(hgt), reverse_taxa_combo)

\* The distance read from the transposed cell.
TipDistValTransposed(tip, taxon_i, taxon_j) ==
    IF taxon_i \notin tip.index \/ taxon_j \notin tip.index
    THEN NA
    ELSE Scalar(tip.cell[<<taxon_j, taxon_i>>])

\* Lines 82-85.
TipDistVal(tip, taxon_i, taxon_j) ==
    IF taxon_i \notin tip.index \/ taxon_j \notin tip.index
    THEN NA
    ELSE Scalar(tip.cell[<<taxon_i, taxon_j>>])

\* Lines 107-115: "exit" stands for the sys.exit of line 113.
CooccurValues(cooccur, ms, taxa_combo, reverse_taxa_combo) ==
    LET index == CooccurIndex(cooccur)
    IN  IF InIndex(index, taxa_combo)
        THEN [exit |-> FALSE,
              values |-> [m \in 1..Len(ms) |->
                  Loc(index, [r \in 1..Len(cooccur) |-> cooccur[r].vals[ms[m]]],
                      taxa_combo)]]
        ELSE IF InIndex(index, reverse_taxa_combo)
        THEN [exit |-> TRUE, values |-> <<>>]
        ELSE [exit |-> FALSE, values |-> [m \in 1..Len(ms) |-> NA]]

\* Line 119.
DataRow(taxa_combo, taxon_i, taxon_j, tip_dist_val, species, hgt_count, cooccur_values) ==
    [type |-> "row", taxa_combo |-> taxa_combo, taxon_i |-> taxon_i,
     taxon_j |-> taxon_j, tip_dist |-> tip_dist_val, species |-> species,
     hgt_count |-> hgt_count, cooccur |-> cooccur_values]

\* Lines 70-73.
HeaderLine(ms) == [type |-> "header", cooccur |-> ms]

Fail(e) == [err |-> e, printed |-> <<>>]

\* Lines 76-119: the body of the second loop for one pair: the reason the run
\* ends there (or "none"), and the line printed.
PairOutcome(hgt, cooccur, tip, taxa, ms, taxa_pair) ==
    LET taxon_i == taxa_pair[1]
        taxon_j == taxa_pair[2]
        taxa_combo == PairKey(taxon_i, taxon_j)
        reverse_taxa_combo == PairKey(taxon_j, taxon_i)
        tip_dist_val == TipDistVal(tip, taxon_i, taxon_j)
        index == HgtIndex(hgt)
        co == CooccurValues(cooccur, ms, taxa_combo, reverse_taxa_combo)
    IN  IF taxon_i \notin DOMAIN taxa \/ taxon_j \notin DOMAIN taxa
        THEN Fail("KeyError")
        ELSE IF diff_level(taxa[taxon_i], taxa[taxon_j]) # "Strain"
        THEN Fail("strain")
        ELSE IF ~InIndex(index, taxa_combo)
        THEN Fail("hgt_missing")
        ELSE IF ReverseInHgt(hgt, reverse_taxa_combo)
        THEN Fail("hgt_reverse")
        ELSE IF co.exit
        THEN Fail("cooccur_reverse")
        ELSE [err |-> "none",
              printed |-> <<DataRow(taxa_combo, taxon_i, taxon_j, tip_dist_val,
                  Loc(index, [k \in 1..Len(hgt) |-> hgt[k].species], taxa_combo),
                  Loc(index, [k \in 1..Len(hgt) |-> hgt[k].hgt_count], taxa_combo),
                  co.values)>>]

----------------------------------------------------------------------------
(* Inputs explored *)

MaxHgtRows == 2

TaxonA == <<"a">>
TaxonAB == <<"a", "b">>
TaxonB == <<"b">>
TaxonIds == {TaxonA, TaxonAB, TaxonB}
Empty == <<>>

\* HGT keys: every ordered pair of identifiers, and keys with one part, three
\* parts, or an empty part.
WellFormedKeys == {Join(<<x, y>>) : x, y \in TaxonIds}
OddKeys == {Join(p) : p \in {<<TaxonA>>, <<TaxonA, TaxonB, TaxonAB>>,
                             <<Empty, Empty, Empty>>, <<TaxonA, Empty>>,
                             <<Empty, TaxonB>>, <<Empty, Empty>>}}
HgtKeys == WellFormedKeys \cup OddKeys

SpeciesNames == <<"sp1", "sp2">>

\* Row k of an HGT table has its own hgt_count, and alternating species.
HgtTables ==
    {[k \in 1..Len(ks) |->
        [key |-> ks[k],
         species |-> SpeciesNames[((k - 1) % Len(SpeciesNames)) + 1],
         hgt_count |-> k]] :
     ks \in UNION {[1..n -> HgtKeys] : n \in 0..MaxHgtRows}}

CooccurPairs == {<<TaxonA, TaxonAB>>, <<TaxonAB, TaxonA>>, <<TaxonB, TaxonAB>>}

\* Row r of a co-occurrence table has its own value in each measure column.
CooccurRow(p, r) ==
    [taxon_i |-> p[1], taxon_j |-> p[2],
     vals |-> [m \in {"m1", "m2"} |-> IF m = "m1" THEN 10 * r + 1 ELSE 10 * r + 2]]
CooccurTables ==
    {<<CooccurRow(p, 1)>> : p \in CooccurPairs}
    \cup {<<CooccurRow(p, 1), CooccurRow(q, 2)>> : p, q \in CooccurPairs}
MeasureLists == {<<"m1">>, <<"m2", "m1">>}

\* Square distance matrices over a set of identifiers; cell [x, y] is not
\* symmetric, so that the direction of the lookup shows.
TipCode == [t \in TaxonIds |-> IF t = TaxonA THEN 1 ELSE IF t = TaxonAB THEN 2 ELSE 3]
TipTable(present) ==
    [index |-> present,
     cell |-> [p \in present \X present |-> 10 * TipCode[p[1]] + TipCode[p[2]]]]
TipTables == {TipTable(present) : present \in SUBSET TaxonIds}

\* Rank vectors: the base vector, and vectors that leave it at one level only
\* or from one level downwards.
BaseLevels == [k \in 1..Len(tax_levels) |-> "x"]
OnlyAt(n, v) == [k \in 1..Len(tax_levels) |-> IF k = n THEN v ELSE "x"]
FromLevel(n, v) == [k \in 1..Len(tax_levels) |-> IF k >= n THEN v ELSE "x"]
GoodTaxa ==
    [t \in TaxonIds |->
        IF t = TaxonA THEN BaseLevels
        ELSE IF t = TaxonAB THEN OnlyAt(Len(tax_levels), "y")
        ELSE OnlyAt(Len(tax_levels), "z")]
TaxaTables ==
    {[GoodTaxa EXCEPT ![TaxonB] = v] :
        v \in {BaseLevels}
              \cup {OnlyAt(n, "z") : n \in 1..Len(tax_levels)}
              \cup {FromLevel(n, "z") : n \in 1..Len(tax_levels)}
              \cup {FromLevel(n, "y") : n \in 1..Len(tax_levels)}}
    \cup {[t \in TaxonIds \ {gone} |-> GoodTaxa[t]] : gone \in TaxonIds}

\* The auxiliary tables vary one at a time around a baseline.
BaseCooccur == <<CooccurRow(<<TaxonA, TaxonAB>>, 1)>>
BaseMeasures == <<"m1">>
AuxInputs ==
    {[cooccur |-> c, measures |-> m, tip |-> TipTable(TaxonIds), taxa |-> GoodTaxa] :
        c \in CooccurTables, m \in MeasureLists}
    \cup {[cooccur |-> BaseCooccur, measures |-> BaseMeasures, tip |-> t,
           taxa |-> GoodTaxa] : t \in TipTables}
    \cup {[cooccur |-> BaseCooccur, measures |-> BaseMeasures,
           tip |-> TipTable(TaxonIds), taxa |-> x] : x \in TaxaTables}

----------------------------------------------------------------------------
(* The run *)

\* Lines 48-60: the tables are loaded, nothing is printed yet.
Init ==
    /\ hgt_tab \in HgtTables
    /\ \E aux \in AuxInputs :
        /\ cooccur_tab = aux.cooccur
        /\ measures = aux.measures
        /\ tip_dist = aux.tip
        /\ taxa_tab = aux.taxa
    /\ taxa_combinations = <<>>
    /\ pc = "split"
    /\ i = 1
    /\ out = <<>>
    /\ err = "none"

\* Lines 61-65: one iteration of the format loop.
SplitKey ==
    /\ pc = "split"
    /\ i <= Len(hgt_tab)
    /\ LET taxa_combo == Split(hgt_tab[i].key)
       IN  IF ~FormatOk(taxa_combo)
           THEN /\ pc' = "error"
                /\ err' = "format"
                /\ UNCHANGED <<taxa_combinations, i>>
           ELSE /\ taxa_combinations' = Append(taxa_combinations, taxa_combo)
                /\ i' = i + 1
                /\ UNCHANGED <<pc, err>>
    /\ UNCHANGED <<tables, out>>

\* Lines 67-73: the measures are checked and the header is printed.
PrintHeader ==
    /\ pc = "split"
    /\ i > Len(hgt_tab)
    /\ IF Len(measures) = 0
       THEN /\ pc' = "error"
            /\ err' = "no_measures"
            /\ UNCHANGED <<i, out>>
       ELSE /\ out' = Append(out, HeaderLine(measures))
            /\ pc' = "rows"
            /\ i' = 1
            /\ UNCHANGED err
    /\ UNCHANGED <<tables, taxa_combinations>>

\* The second loop going on to the next pair after a failed check.
ProcessPairKeepsGoing ==
    /\ pc = "rows"
    /\ i <= Len(taxa_combinations)
    /\ LET o == PairOutcome(hgt_tab, cooccur_tab, tip_dist, taxa_tab, measures,
                            taxa_combinations[i])
       IN  /\ err' = IF o.err # "none" THEN o.err ELSE err
           /\ out' = out \o o.printed
           /\ i' = i + 1
           /\ UNCHANGED pc
    /\ UNCHANGED <<tables, taxa_combinations>>

\* Lines 75-119: one iteration of the second loop.
ProcessPair ==
    /\ pc = "rows"
    /\ i <= Len(taxa_combinations)
    /\ LET o == PairOutcome(hgt_tab, cooccur_tab, tip_dist, taxa_tab, measures,
                            taxa_combinations[i])
       IN  IF o.err # "none"
           THEN /\ pc' = "error"
                /\ err' = o.err
                /\ UNCHANGED <<i, out>>
           ELSE /\ out' = out \o o.printed
                /\ i' = i + 1
                /\ UNCHANGED <<pc, err>>
    /\ UNCHANGED <<tables, taxa_combinations>>

\* The second loop is over: main returns and the process exits with 0.
Finish ==
    /\ pc = "rows"
    /\ i > Len(taxa_combinations)
    /\ pc' = "done"
    /\ UNCHANGED <<tables, taxa_combinations, i, out, err>>

Next == SplitKey \/ PrintHeader \/ ProcessPair \/ Finish

Spec == Init /\ [][Next]_vars

----------------------------------------------------------------------------
(* Vocabulary of the properties, stated on the tables and on the output     *)
(* without the operators of the run.                                         *)

\* The data lines printed so far; the line of the k-th pair is out[k + 1].
NumRows == IF Len(out) = 0 THEN 0 ELSE Len(out) - 1
RowOf(k) == out[k + 1]

NumCommas(s) == Cardinality({k \in 1..Len(s) : s[k] = ","})
TwoParts(s) == NumCommas(s) = 1
TwoNonEmptyParts(s) == TwoParts(s) /\ s[1] # "," /\ s[Len(s)] # ","
FirstPart(s) == SubSeq(s, 1, (CHOOSE k \in 1..Len(s) : s[k] = ",") - 1)
SecondPart(s) == SubSeq(s, (CHOOSE k \in 1..Len(s) : s[k] = ",") + 1, Len(s))
Reversed(s) == SecondPart(s) \o <<",">> \o FirstPart(s)

\* Rows of the co-occurrence table for the unordered pair {x, y}.
CooccurRowsOf(x, y) ==
    {r \in 1..Len(cooccur_tab) :
        \/ cooccur_tab[r].taxon_i = x /\ cooccur_tab[r].taxon_j = y
        \/ cooccur_tab[r].taxon_i = y /\ cooccur_tab[r].taxon_j = x}

\* The two taxa are classified alike above Strain and differently at Strain.
StrainLevelPair(x, y) ==
    /\ x \in DOMAIN taxa_tab
    /\ y \in DOMAIN taxa_tab
    /\ \A n \in 1..7 : taxa_tab[x][n] = taxa_tab[y][n]
    /\ taxa_tab[x][8] # taxa_tab[y][8]

ConsistencyErrors == {"strain", "hgt_reverse", "cooccur_reverse"}

\* The run never gets to the k-th key's successor in the second loop.
StopsAtOrBefore(k) ==
    /\ pc # "done"
    /\ pc = "rows" => i <= k
    /\ NumRows < k

----------------------------------------------------------------------------
(* Properties *)

\* C1 (as claimed): whatever the order of the two taxa in the HGT key, the
\* co-occurrence fields of a printed row are the measure values of the row
\* of the co-occurrence table for that unordered pair, NA when there is no
\* such row, and a row of the co-occurrence table for the pair never ends
\* the run.
C1_CooccurLookupOrderIndependent ==
    /\ \A k \in 1..NumRows :
        LET rows == CooccurRowsOf(RowOf(k).taxon_i, RowOf(k).taxon_j)
        IN  /\ rows = {} =>
                \A m \in 1..Len(measures) : RowOf(k).cooccur[m] = NA
            /\ Cardinality(rows) = 1 =>
                \A m \in 1..Len(measures) :
                    \A r \in rows :
                        RowOf(k).cooccur[m] = Scalar(cooccur_tab[r].vals[measures[m]])
    /\ (pc = "error" /\ err = "cooccur_reverse") =>
          CooccurRowsOf(taxa_combinations[i][1], taxa_combinations[i][2]) = {}

\* C2: when the HGT table holds a key and its reverse, no line is printed
\* for either and the run ends with an error at the first of the two, or
\* before it.
C2_ReverseKeyInHgtStopsRun ==
    \A k1, k2 \in 1..Len(hgt_tab) :
        (TwoParts(hgt_tab[k1].key) /\ hgt_tab[k2].key = Reversed(hgt_tab[k1].key))
        => /\ StopsAtOrBefore(IF k1 < k2 THEN k1 ELSE k2)
           /\ \A k \in 1..NumRows :
                RowOf(k).taxa_combo \notin {hgt_tab[k1].key, hgt_tab[k2].key}

C2_Witness ==
    /\ pc = "error"
    /\ err = "hgt_reverse"
    /\ \E k \in 1..Len(hgt_tab) :
        /\ k # i
        /\ hgt_tab[k].key = Reversed(hgt_tab[i].key)
        /\ StrainLevelPair(FirstPart(hgt_tab[i].key), SecondPart(hgt_tab[i].key))

\* C3 (as claimed): when the co-occurrence table holds a row for (a, b) and a
\* row for (b, a), no line is printed for an HGT key of that pair.
C3_ReversePairInCooccurStopsRun ==
    \A k \in 1..NumRows :
        ~ \E r1, r2 \in 1..Len(cooccur_tab) :
            /\ cooccur_tab[r1].taxon_i = RowOf(k).taxon_i
            /\ cooccur_tab[r1].taxon_j = RowOf(k).taxon_j
            /\ cooccur_tab[r2].taxon_i = RowOf(k).taxon_j
            /\ cooccur_tab[r2].taxon_j = RowOf(k).taxon_i

\* C4: a line is printed only for a pair whose taxa agree on the seven
\* levels above Strain and differ at Strain; a pair of classified taxa that
\* is not of that kind ends the run with an error, and gets no line.
C4_OnlyStrainLevelPairsPrinted ==
    /\ \A k \in 1..NumRows : StrainLevelPair(RowOf(k).taxon_i, RowOf(k).taxon_j)
    /\ \A k \in 1..Len(taxa_combinations) :
        LET x == taxa_combinations[k][1]
            y == taxa_combinations[k][2]
        IN  (x \in DOMAIN taxa_tab /\ y \in DOMAIN taxa_tab /\ ~StrainLevelPair(x, y))
            => /\ StopsAtOrBefore(k)
               /\ (pc = "error" /\ i = k) => err = "strain"

C4_Witness ==
    /\ pc = "error"
    /\ err = "strain"
    /\ NumRows = 1
    /\ taxa_tab[taxa_combinations[i][1]][8] # taxa_tab[taxa_combinations[i][2]][8]

\* C5 (as claimed): an HGT key that does not split into exactly two
\* non-empty parts makes the run end with a format error.
C5_EmptyPartIsFormatError ==
    (\E k \in 1..Len(hgt_tab) : ~TwoNonEmptyParts(hgt_tab[k].key))
    => /\ pc \in {"split", "error"}
       /\ err \in {"none", "format"}

\* C5 (amended): an HGT key that does not split into exactly two parts makes
\* the run end with a format error; no line is ever printed for a key that
\* has a number of parts other than two or an empty part.
C5_WrongCountIsFormatError ==
    /\ (\E k \in 1..Len(hgt_tab) : ~TwoParts(hgt_tab[k].key))
       => /\ pc \in {"split", "error"}
          /\ err \in {"none", "format"}
    /\ \A k \in 1..NumRows : TwoNonEmptyParts(hgt_tab[k].key)
    /\ \A k \in 1..Len(hgt_tab) :
        ~TwoNonEmptyParts(hgt_tab[k].key) => StopsAtOrBefore(k)

C5_Witness ==
    /\ pc = "error"
    /\ err = "KeyError"
    /\ NumRows = 1
    /\ TwoParts(hgt_tab[i].key)
    /\ ~TwoNonEmptyParts(hgt_tab[i].key)

\* C6 (as claimed): a run that ends in success has printed the header once
\* and then one line per HGT entry, in table order, the k-th line with the
\* k-th entry's key, its two taxa in the key's order, its species and its
\* hgt_count.
C6_SuccessPrintsEveryEntry ==
    pc = "done" =>
        /\ Len(out) = Len(hgt_tab) + 1
        /\ out[1] = [type |-> "header", cooccur |-> measures]
        /\ \A k \in 1..Len(hgt_tab) :
            /\ RowOf(k).type = "row"
            /\ RowOf(k).taxa_combo = hgt_tab[k].key
            /\ RowOf(k).taxon_i = FirstPart(hgt_tab[k].key)
            /\ RowOf(k).taxon_j = SecondPart(hgt_tab[k].key)
            /\ RowOf(k).species = Scalar(hgt_tab[k].species)
            /\ RowOf(k).hgt_count = Scalar(hgt_tab[k].hgt_count)

\* C7: the tip_dist field of a printed line is NA exactly when one of the
\* two taxa is not in the distance table, and otherwise the cell of row
\* taxon_i and column taxon_j; a taxon missing from the distance table is
\* never the reason the run ends.
C7_TipDistNaOrCell ==
    /\ \A k \in 1..NumRows :
        LET x == RowOf(k).taxon_i
            y == RowOf(k).taxon_j
        IN  IF x \in tip_dist.index /\ y \in tip_dist.index
            THEN RowOf(k).tip_dist = Scalar(tip_dist.cell[<<x, y>>])
            ELSE RowOf(k).tip_dist = NA
    /\ (pc = "error" /\ err # "format") =>
        LET x == taxa_combinations[i][1]
            y == taxa_combinations[i][2]
        IN  \/ ~StrainLevelPair(x, y)
            \/ \E n \in 1..Len(hgt_tab) : hgt_tab[n].key = y \o <<",">> \o x
            \/ CooccurRowsOf(x, y) # {}

C7_Witness ==
    /\ pc = "done"
    /\ NumRows = 2
    /\ RowOf(1).tip_dist.kind = "scalar"
    /\ RowOf(2).tip_dist = NA
    /\ RowOf(2).taxon_i \in tip_dist.index

\* C8: when the run ends on a consistency failure at a key, standard output
\* holds the header and the lines of the keys before it, in table order, and
\* nothing for that key or a later one; the run does nothing after it.
C8_ConsistencyFailureStopsAtOnce ==
    err \in ConsistencyErrors =>
        /\ pc = "error"
        /\ ~ ENABLED Next
        /\ Len(out) = i
        /\ out[1].type = "header"
        /\ \A k \in 1..(i - 1) :
            /\ RowOf(k).type = "row"
            /\ RowOf(k).taxa_combo = hgt_tab[k].key

C8_Witness ==
    /\ pc = "error"
    /\ err = "cooccur_reverse"
    /\ i = 2
    /\ RowOf(1).taxa_combo = hgt_tab[1].key

\* C9: when some HGT key, at any position, does not split into exactly two
\* parts, nothing is ever printed, header included.
C9_FormatCheckedBeforeOutput ==
    (\E k \in 1..Len(hgt_tab) : ~TwoParts(hgt_tab[k].key))
    => /\ out = <<>>
       /\ pc \in {"split", "error"}

C9_Witness ==
    /\ pc = "error"
    /\ err = "format"
    /\ i = Len(hgt_tab)
    /\ i > 1
    /\ \A k \in 1..(i - 1) : TwoNonEmptyParts(hgt_tab[k].key)

\* C10: the error "Taxa_combo not found in HGT table" never happens: every
\* pair kept by the format loop, joined again with a comma, is the key it
\* came from.
C10_RebuiltKeyIsOriginal ==
    /\ err # "hgt_missing"
    /\ \A k \in 1..Len(taxa_combinations) :
        /\ taxa_combinations[k][1] \o <<",">> \o taxa_combinations[k][2]
              = hgt_tab[k].key
        /\ k <= NumRows => RowOf(k).taxa_combo = hgt_tab[k].key

C10_Witness ==
    /\ pc = "done"
    /\ NumRows = 2
    /\ RowOf(1).taxa_combo # RowOf(2).taxa_combo

====
